---- MODULE Spec2Model ----
(***************************************************************************)
(* Model of the postgres.query tool of postgres-mcp-go                     *)
(* (internal/postgresmcp/query_tool.go): the statement classifier, the     *)
(* guardrail checks, the row limit, the timeout and the row loop of        *)
(* queryHandler.call, run against a pgx connection pool.                   *)
(*                                                                         *)
(* SQL texts are sequences of one-character strings.                       *)
(***************************************************************************)
EXTENDS Integers, Sequences, FiniteSets, TLC

\* ---------------------------------------------------------------- bounds
MaxLen == 4          \* longest SQL text of the classifier specification
MaxTime == 2         \* the clock runs from 0 to MaxTime
MaxResultRows == 3   \* most rows an executed statement yields
MaxOptRows == 2      \* largest ServerOptions.MaxRows / queryInput.MaxRows
MaxAffected == 1     \* largest affected-row count of a command tag
PoolSize == 1        \* connections of the pool
MaxExp == 64         \* largest binary exponent of a float64 argument

\* ------------------------------------------------ strings, unicode
Lower == <<"a","b","c","d","e","f","g","h","i","j","k","l","m",
           "n","o","p","q","r","s","t","u","v","w","x","y","z">>
Upper == <<"A","B","C","D","E","F","G","H","I","J","K","L","M",
           "N","O","P","Q","R","S","T","U","V","W","X","Y","Z">>

Range(f) == {f[i] : i \in DOMAIN f}

IsSpace(r) == r \in {" ", "\t", "\n", "\r"}

IsLetter(r) == r \in Range(Lower) \cup Range(Upper)

ToUpper(r) ==
    IF r \in Range(Lower)
    THEN Upper[CHOOSE i \in DOMAIN Lower : Lower[i] = r]
    ELSE r

\* s[from:] with a 0-based offset, as a Go slice expression
SliceFrom(s, from) == SubSeq(s, from + 1, Len(s))

\* s[:to] with a 0-based offset
SliceTo(s, to) == SubSeq(s, 1, to)

RECURSIVE TrimLeft(_)
TrimLeft(s) ==
    IF s # <<>> /\ IsSpace(Head(s)) THEN TrimLeft(Tail(s)) ELSE s

RECURSIVE TrimRight(_)
TrimRight(s) ==
    IF s # <<>> /\ IsSpace(s[Len(s)]) THEN TrimRight(SliceTo(s, Len(s) - 1)) ELSE s

TrimSpace(s) == TrimRight(TrimLeft(s))

\* strings.Count(s, c) for a one-character c
RECURSIVE Count(_, _)
Count(s, c) ==
    IF s = <<>> THEN 0
    ELSE (IF Head(s) = c THEN 1 ELSE 0) + Count(Tail(s), c)

HasPrefix(s, pre) ==
    Len(s) >= Len(pre) /\ SubSeq(s, 1, Len(pre)) = pre

\* strings.Index: 0-based offset of the first occurrence of sub, -1 if none
Index(s, sub) ==
    LET hits == {i \in 0..(Len(s) - Len(sub)) : SubSeq(s, i + 1, i + Len(sub)) = sub}
    IN IF hits = {} THEN -1 ELSE CHOOSE i \in hits : \A j \in hits : i <= j

\* strings.LastIndex: 0-based offset of the last occurrence of sub, -1 if none
LastIndex(s, sub) ==
    LET hits == {i \in 0..(Len(s) - Len(sub)) : SubSeq(s, i + 1, i + Len(sub)) = sub}
    IN IF hits = {} THEN -1 ELSE CHOOSE i \in hits : \A j \in hits : i >= j

\* ------------------------------------------------ statement classifier
\* the comment-skipping loop of firstKeyword
RECURSIVE skipComments(_)
skipComments(s) ==
    IF HasPrefix(s, <<"-", "-">>) THEN
        LET newline == Index(s, <<"\n">>)
        IN IF newline < 0 THEN [ok |-> FALSE, s |-> <<>>]
           ELSE skipComments(TrimSpace(SliceFrom(s, newline + 1)))
    ELSE IF HasPrefix(s, <<"/", "*">>) THEN
        LET end == Index(s, <<"*", "/">>)
        IN IF end < 0 THEN [ok |-> FALSE, s |-> <<>>]
           ELSE skipComments(TrimSpace(SliceFrom(s, end + 2)))
    ELSE [ok |-> TRUE, s |-> s]

\* the token loop of firstKeyword
RECURSIVE scanKeyword(_, _)
scanKeyword(s, builder) ==
    IF s = <<>> THEN builder
    ELSE LET r == Head(s)
         IN IF IsLetter(r) \/ r = "_" THEN scanKeyword(Tail(s), Append(builder, ToUpper(r)))
            ELSE IF Len(builder) = 0 /\ IsSpace(r) THEN scanKeyword(Tail(s), builder)
            ELSE builder

firstKeyword(sql) ==
    LET sk == skipComments(TrimSpace(sql))
    IN IF ~sk.ok THEN <<>>
       ELSE IF sk.s = <<>> THEN <<>>
       ELSE scanKeyword(sk.s, <<>>)

\* variant of allowedReadOnly: DELETE slipped into the allow-set
allowedReadOnlyWithDelete ==
    { <<"S","E","L","E","C","T">>,
      <<"W","I","T","H">>,
      <<"S","H","O","W">>,
      <<"E","X","P","L","A","I","N">>,
      <<"V","A","L","U","E","S">>,
      <<"T","A","B","L","E">>,
      <<"D","E","L","E","T","E">> }

allowedReadOnly ==
    { <<"S","E","L","E","C","T">>,
      <<"W","I","T","H">>,
      <<"S","H","O","W">>,
      <<"E","X","P","L","A","I","N">>,
      <<"V","A","L","U","E","S">>,
      <<"T","A","B","L","E">> }

isReadOnlyStatement(sql) ==
    LET kw == firstKeyword(sql)
    IN IF kw = <<>> THEN FALSE ELSE kw \in allowedReadOnly

\* variant of isSingleStatement: a trailing semicolon is accepted without
\* looking at what precedes it
isSingleStatementNoContent(sql) ==
    LET t == TrimSpace(sql)
        semi == Count(t, ";")
        idx == LastIndex(t, <<";">>)
    IN IF t = <<>> THEN FALSE
       ELSE IF semi = 0 THEN TRUE
       ELSE IF semi > 1 THEN FALSE
       ELSE idx = Len(t) - 1

isSingleStatement(sql) ==
    LET t == TrimSpace(sql)
        semi == Count(t, ";")
        idx == LastIndex(t, <<";">>)
    IN IF t = <<>> THEN FALSE
       ELSE IF semi = 0 THEN TRUE
       ELSE IF semi > 1 THEN FALSE
       ELSE IF idx = Len(t) - 1 THEN TrimSpace(SliceTo(t, idx)) # <<>>
       ELSE FALSE


\* ------------------------------------------------ handler construction
defaultMaxRows == 200

\* the SQL texts calls are made with
SqlTexts ==
    { <<>>,
      <<" ", "\n">>,
      <<";">>,
      <<" ", " ", "s","e","l","e","c","t", " ", "1">>,
      <<"S","E","L","E","C","T", " ", "1", ";">>,
      <<"W","i","t","h", " ", "x">>,
      <<"1">>,
      <<"D","E","L","E","T","E", " ", "t">>,
      <<"d","e","l","e","t","e", " ", "a", ";", " ", "d","e","l","e","t","e", " ", "b">> }

ServerOptions ==
    [ReadOnly : BOOLEAN, MaxRows : -1..MaxOptRows, RequestTimeout : -1..MaxTime]

\* NewServer: the queryHandler it registers
NewServer(opts) ==
    LET maxRows == IF opts.MaxRows <= 0 THEN defaultMaxRows ELSE opts.MaxRows
    IN [readOnly |-> opts.ReadOnly,
        maxRows |-> maxRows,
        requestTimeout |-> opts.RequestTimeout]

\* a queryHandler value whose fields are set directly, with no row limit
queryHandler(opts) ==
    [readOnly |-> opts.ReadOnly,
     maxRows |-> 0,
     requestTimeout |-> opts.RequestTimeout]

\* ------------------------------------------------ values of a call
NilErr == "nil"
ErrEmpty == "sql must not be empty"
ErrMulti == "only a single SQL statement is supported per call"
ErrMutating == "mutating statements are disabled in read-only mode"
ErrMaxRows == "maxRows must be positive"
ErrCanceled == "context canceled"
ErrDeadline == "context deadline exceeded"
ErrAcquire == "failed to acquire connection"
ErrExec == "statement failed"
ErrValues == "row values failed"
ErrRows == "row iteration failed"

ValidationErrors == {ErrEmpty, ErrMulti, ErrMutating, ErrMaxRows}

\* a deadline as context.Context.Deadline() reports it
NoDeadline == [has |-> FALSE, at |-> 0]

DeadlineAt(t) == [has |-> TRUE, at |-> t]

\* the zero queryOutput
queryOutput ==
    [Command |-> <<>>, RowCount |-> 0, Columns |-> <<>>, Rows |-> <<>>,
     Truncated |-> FALSE, Elapsed |-> <<>>]

\* variant of validate: the negative-limit check is missing
validateNoLimitCheck(hd, input) ==
    LET sqlText == TrimSpace(input.SQL)
    IN IF sqlText = <<>> THEN ErrEmpty
       ELSE IF ~isSingleStatement(sqlText) THEN ErrMulti
       ELSE IF hd.readOnly /\ ~isReadOnlyStatement(sqlText) THEN ErrMutating
       ELSE NilErr

\* variant of validate: the negative-limit check comes first
validateLimitFirst(hd, input) ==
    LET sqlText == TrimSpace(input.SQL)
    IN IF input.MaxRows < 0 THEN ErrMaxRows
       ELSE IF sqlText = <<>> THEN ErrEmpty
       ELSE IF ~isSingleStatement(sqlText) THEN ErrMulti
       ELSE IF hd.readOnly /\ ~isReadOnlyStatement(sqlText) THEN ErrMutating
       ELSE NilErr

\* the guardrail checks of call, in the order the code makes them
validate(hd, input) ==
    LET sqlText == TrimSpace(input.SQL)
    IN IF sqlText = <<>> THEN ErrEmpty
       ELSE IF ~isSingleStatement(sqlText) THEN ErrMulti
       ELSE IF hd.readOnly /\ ~isReadOnlyStatement(sqlText) THEN ErrMutating
       ELSE IF input.MaxRows < 0 THEN ErrMaxRows
       ELSE NilErr

\* variant of effectiveLimit: any positive override replaces the default
effectiveLimitOverrideWins(hd, input) ==
    IF input.MaxRows > 0 THEN input.MaxRows ELSE hd.maxRows

\* the row limit of a call that passed the checks
effectiveLimit(hd, input) ==
    IF input.MaxRows > 0 /\ (hd.maxRows = 0 \/ input.MaxRows < hd.maxRows)
    THEN input.MaxRows
    ELSE hd.maxRows

\* context.WithTimeout: the earlier of the parent's deadline and clock + d
WithTimeout(parent, d, clock) ==
    IF parent.has /\ parent.at <= clock + d THEN parent ELSE DeadlineAt(clock + d)

\* variant of applyTimeout: only a negative duration disables the timeout
applyTimeoutNegativeOnly(parent, d, clock) ==
    IF d < 0 THEN parent ELSE WithTimeout(parent, d, clock)

applyTimeout(parent, d, clock) ==
    IF d <= 0 THEN parent ELSE WithTimeout(parent, d, clock)

\* pgconn.CommandTag: empty until the rows are closed
CommandTag(affected) == <<"CMD", affected>>

RowsAffected(tag) == IF tag = <<>> THEN 0 ELSE tag[2]

commandString(tag) == IF tag = <<>> THEN <<>> ELSE tag


\* ------------------------------------------------ arguments
\* A float64 argument is sign * m * 2^e with m odd, or m = 0 (e = 0, sign = 1).
\* An int64 is sign * (m * 2^e - less), so that 2^63 - 1 can be written.
\* Arguments arrive as decoded JSON: numbers (float64), strings, booleans,
\* null, arrays ([]any) and objects (map[string]any); JSON has no NaN or
\* infinity.
Int64Bits == 64

Float(sign, m, e) == [type |-> "float64", sign |-> sign, m |-> m, e |-> e]

Int64(sign, m, e, less) ==
    [type |-> "int64", sign |-> sign, m |-> m, e |-> e, less |-> less]

MinInt64 == Int64(-1, 1, Int64Bits - 1, 0)

MaxInt64 == Int64(1, 1, Int64Bits - 1, 1)

RECURSIVE BitLen(_)
BitLen(m) == IF m = 0 THEN 0 ELSE 1 + BitLen(m \div 2)

\* math.Trunc(v) == v
truncEqual(v) == v.m = 0 \/ v.e >= 0

\* v lies in [-2^63, 2^63)
fitsInt64(v) ==
    \/ v.m = 0
    \/ BitLen(v.m) + v.e <= Int64Bits - 1
    \/ (v.sign = -1 /\ v.m = 1 /\ v.e = Int64Bits - 1)

\* the conversion int64(v) of a float64 without fraction: the set of results
\* a build can give.  Go leaves the result of an out-of-range conversion to
\* the implementation: amd64 gives the minimum int64, arm64 saturates.
int64(v) ==
    IF fitsInt64(v) THEN {Int64(v.sign, v.m, v.e, 0)}
    ELSE IF v.sign = 1 THEN {MinInt64, MaxInt64}
    ELSE {MinInt64}

\* normalizeArgument: the set of values it can return for arg
RECURSIVE normalizeArgument(_)
normalizeArgument(arg) ==
    CASE arg.type = "float64" ->
            IF truncEqual(arg) THEN int64(arg) ELSE {arg}
      [] arg.type = "map[string]any" ->
            {[type |-> "map[string]any", entries |-> f] :
                f \in {g \in [DOMAIN arg.entries ->
                                UNION {normalizeArgument(arg.entries[k]) :
                                          k \in DOMAIN arg.entries}] :
                          \A k \in DOMAIN arg.entries :
                              g[k] \in normalizeArgument(arg.entries[k])}}
      [] arg.type = "[]any" ->
            {[type |-> "[]any", elems |-> f] :
                f \in {g \in [DOMAIN arg.elems ->
                                UNION {normalizeArgument(arg.elems[i]) :
                                          i \in DOMAIN arg.elems}] :
                          \A i \in DOMAIN arg.elems :
                              g[i] \in normalizeArgument(arg.elems[i])}}
      [] OTHER -> {arg}

\* the float64 arguments tried
Floats ==
    {Float(1, 0, 0)} \cup
    {Float(sg, m, e) : sg \in {1, -1}, m \in {1, 3, 7}, e \in -2..MaxExp}

\* 3.0, 3.5, 2^63, a string, a boolean, null
Scalars ==
    { Float(1, 3, 0), Float(1, 7, -1), Float(1, 1, Int64Bits - 1),
      [type |-> "string", val |-> "s"],
      [type |-> "bool", val |-> TRUE],
      [type |-> "nil", val |-> 0] }

Slice(elems) == [type |-> "[]any", elems |-> elems]

Map(entries) == [type |-> "map[string]any", entries |-> entries]

\* arrays and objects of scalars, and an array holding an object and an array
Composites ==
    {Slice(<<>>)}
    \cup {Slice(<<a>>) : a \in Scalars}
    \cup {Slice(<<a, b>>) : a \in Scalars, b \in Scalars}
    \cup {Map([k \in {"k"} |-> a]) : a \in Scalars}
    \cup {Map([k \in {"j", "k"} |-> IF k = "j" THEN a ELSE b]) :
              a \in Scalars, b \in Scalars}
    \cup {Slice(<<Map([k \in {"k"} |-> a]), Slice(<<b>>)>>) :
              a \in Scalars, b \in Scalars}

Arguments == Floats \cup Scalars \cup Composites

\* the argument lists calls are made with: (3.0, 3.5)
ArgLists == { <<Float(1, 3, 0), Float(1, 7, -1)>> }

\* ------------------------------------------------ result sets, values
\* the field lists a statement's result may have
FieldChoices == { <<>>, <<"a">>, <<"a", "b">>, <<"a", "a">> }

\* the cell the database sends for column j of row i
Cell(i, j) ==
    IF j = 1 THEN [type |-> "int64", val |-> 10 * i + j]
    ELSE [type |-> "[]byte", val |-> 10 * i + j]

\* rows.Values() of row i
Values(i, fields) == [j \in 1..Len(fields) |-> Cell(i, j)]

Nil == [type |-> "nil", val |-> 0]

normalizeValue(v) ==
    CASE v.type = "[]byte" -> [type |-> "string", val |-> v.val]
      [] v.type = "time.Time" -> [type |-> "string", val |-> <<"RFC3339Nano", "UTC", v.val>>]
      [] v.type = "pgtype.Numeric" ->
            IF ~v.valid THEN Nil ELSE [type |-> "string", val |-> v.val]
      [] v.type = "*pgtype.Numeric" ->
            IF v.isnil \/ ~v.valid THEN Nil ELSE [type |-> "string", val |-> v.val]
      [] v.type = "fmt.Stringer" -> [type |-> "string", val |-> v.val]
      [] OTHER -> v

\* the record of one row: assignments record[col] = val in column order,
\* a later assignment to the same key replacing an earlier one
record(columns, values) ==
    [col \in Range(columns) |->
        LET i == CHOOSE k \in DOMAIN columns :
                    /\ columns[k] = col
                    /\ \A m \in DOMAIN columns : columns[m] = col => m <= k
        IN IF i <= Len(values) THEN normalizeValue(values[i]) ELSE Nil]

\* ------------------------------------------------ state
Calls == {"c1", "c2"}

VARIABLES
    opts,      \* the ServerOptions the handler was built from
    built,     \* "NewServer" or "literal": how the handler was built
    h,         \* the queryHandler
    now,       \* the clock
    free,      \* connections idle in the pool
    call,      \* per task: the locals of its queryHandler.call
    text,      \* classifier specification: the text classified
    single,    \* classifier specification: <<isSingleStatement(text)>>, once applied
    keyword,   \* classifier specification: <<firstKeyword(text)>>, once applied
    arg,       \* normalizer specification: the argument normalized
    param      \* normalizer specification: <<the value returned>>, once applied

vars == <<opts, built, h, now, free, call, text, single, keyword, arg, param>>

hvars == <<opts, built, h>>

fnvars == <<text, single, keyword, arg, param>>

NoRows == [fields |-> <<>>, n |-> 0, tag |-> <<>>]

\* a task that is not in a call
Idle ==
    [pc |-> "idle",
     input |-> [SQL |-> <<>>, Args |-> <<>>, MaxRows |-> 0],
     params |-> <<>>,
     parent |-> NoDeadline, cancelled |-> FALSE, ctx |-> NoDeadline,
     limit |-> 0, start |-> 0,
     conn |-> FALSE, rows |-> NoRows, pos |-> 0,
     columns |-> <<>>, dataRows |-> <<>>, count |-> 0, trunc |-> FALSE,
     out |-> queryOutput, err |-> NilErr,
     queryCalls |-> 0, acquired |-> FALSE, ctxSeen |-> FALSE]

InFlight == {"Query", "Exec", "Next"}

Expired(d) == d.has /\ now >= d.at

\* ctx.Done() of the call's context is closed
CtxDone(c) == c.cancelled \/ Expired(c.parent) \/ Expired(c.ctx)

\* ctx.Err()
CtxErr(c) == IF c.cancelled THEN ErrCanceled ELSE ErrDeadline

\* a return of call with (out, err): the deferred rows.Close() (or
\* pool.Query's own release on failure) gives the connection back.  The
\* limit, the result set and the count of the call are kept for reference.
returned(c, out, err) ==
    [Idle EXCEPT !.pc = "returned", !.input = c.input,
                 !.limit = c.limit, !.rows = c.rows, !.count = c.count,
                 !.out = out, !.err = err,
                 !.queryCalls = c.queryCalls, !.acquired = c.acquired,
                 !.ctxSeen = CtxDone(c) /\ c.pc \in InFlight]

release(c) == IF c.conn THEN free + 1 ELSE free

\* variant of finish: the affected-row count replaces a zero row count
\* whether or not the result has columns
finishNoColumnCheck(c, closed) ==
    LET tag == IF closed THEN c.rows.tag ELSE <<>>
        rowCount == IF c.count = 0 THEN RowsAffected(tag) ELSE c.count
    IN [Command |-> commandString(tag),
        RowCount |-> rowCount,
        Columns |-> c.columns,
        Rows |-> c.dataRows,
        Truncated |-> c.trunc,
        Elapsed |-> <<now - c.start>>]

\* lines 118-137: the output of a call whose row loop ended without error;
\* closed tells whether rows.Next() had closed the rows
finish(c, closed) ==
    LET tag == IF closed THEN c.rows.tag ELSE <<>>
        rowCount == IF c.count = 0 /\ Len(c.columns) = 0
                    THEN RowsAffected(tag) ELSE c.count
    IN [Command |-> commandString(tag),
        RowCount |-> rowCount,
        Columns |-> c.columns,
        Rows |-> c.dataRows,
        Truncated |-> c.trunc,
        Elapsed |-> <<now - c.start>>]


\* ------------------------------------------------ queryHandler.call
\* lines 69-72: the parameters bound for args, one normalized value each
bindParams(args) ==
    {ps \in [DOMAIN args -> UNION {normalizeArgument(args[i]) : i \in DOMAIN args}] :
        \A i \in DOMAIN args : ps[i] \in normalizeArgument(args[i])}

\* lines 49-80: the checks, the limit, the arguments, the timeout, and the
\* entry into pool.Query
Call(p, sqlIn, args, maxRows, parent) ==
    /\ call[p].pc = "idle"
    /\ LET input == [SQL |-> sqlIn, Args |-> args, MaxRows |-> maxRows]
           c == [Idle EXCEPT !.input = input, !.parent = parent]
           e == validate(h, input)
       IN \E ps \in bindParams(args) :
          call' = [call EXCEPT ![p] =
              IF e # NilErr THEN returned(c, queryOutput, e)
              ELSE [c EXCEPT !.pc = "Query",
                             !.limit = effectiveLimit(h, input),
                             !.params = ps,
                             !.ctx = applyTimeout(parent, h.requestTimeout, now),
                             !.start = now,
                             !.queryCalls = 1]]
    /\ UNCHANGED <<hvars, now, free, fnvars>>

\* pool.Query obtains a connection
Acquire(p) ==
    /\ call[p].pc = "Query"
    /\ free > 0
    /\ free' = free - 1
    /\ call' = [call EXCEPT ![p].pc = "Exec", ![p].conn = TRUE, ![p].acquired = TRUE]
    /\ UNCHANGED <<hvars, now, fnvars>>

\* pool.Query fails to obtain a connection; line 81-83
AcquireErr(p) ==
    /\ call[p].pc = "Query"
    /\ call' = [call EXCEPT ![p] = returned(call[p], queryOutput, ErrAcquire)]
    /\ UNCHANGED <<hvars, now, free, fnvars>>

\* the context ends while pool.Query waits for a connection or for the
\* statement: pool.Query releases what it holds and fails; line 81-83
QueryCtxErr(p) ==
    /\ call[p].pc \in {"Query", "Exec"}
    /\ CtxDone(call[p])
    /\ free' = release(call[p])
    /\ call' = [call EXCEPT ![p] = returned(call[p], queryOutput, CtxErr(call[p]))]
    /\ UNCHANGED <<hvars, now, fnvars>>

\* the database rejects the statement: pool.Query releases the connection
\* and fails; line 81-83
ExecErr(p) ==
    /\ call[p].pc = "Exec"
    /\ free' = release(call[p])
    /\ call' = [call EXCEPT ![p] = returned(call[p], queryOutput, ErrExec)]
    /\ UNCHANGED <<hvars, now, fnvars>>

\* the statement runs; lines 84-96: the column names are read
ExecOk(p, fields, n, affected) ==
    /\ call[p].pc = "Exec"
    /\ call' = [call EXCEPT ![p].pc = "Next",
                            ![p].rows = [fields |-> fields, n |-> n,
                                         tag |-> CommandTag(affected)],
                            ![p].columns = [i \in 1..Len(fields) |-> fields[i]]]
    /\ UNCHANGED <<hvars, now, free, fnvars>>

\* variant of limitReached: the comparison is off by one
limitReachedOffByOne(c) == c.limit > 0 /\ c.count > c.limit

limitReached(c) == c.limit > 0 /\ c.count >= c.limit

\* rows.Next() is true and the limit is not reached; lines 103-116
NextRow(p) ==
    LET c == call[p] IN
    /\ c.pc = "Next"
    /\ c.pos < c.rows.n
    /\ ~limitReached(c)
    /\ call' = [call EXCEPT
            ![p].pos = c.pos + 1,
            ![p].dataRows = Append(c.dataRows,
                                   record(c.columns, Values(c.pos + 1, c.rows.fields))),
            ![p].count = c.count + 1]
    /\ UNCHANGED <<hvars, now, free, fnvars>>

\* variant of NextTruncate: the rows are never closed, so the connection
\* stays out of the pool
NextTruncateLeak(p) ==
    LET c == call[p] IN
    /\ c.pc = "Next"
    /\ c.pos < c.rows.n
    /\ c.limit > 0 /\ c.count >= c.limit
    /\ call' = [call EXCEPT ![p] =
            returned(c, finish([c EXCEPT !.trunc = TRUE], FALSE), NilErr)]
    /\ UNCHANGED <<hvars, now, free, fnvars>>

\* rows.Next() is true and the limit is reached; lines 99-101, 118-137
NextTruncate(p) ==
    LET c == call[p] IN
    /\ c.pc = "Next"
    /\ c.pos < c.rows.n
    /\ limitReached(c)
    /\ free' = release(c)
    /\ call' = [call EXCEPT ![p] =
            returned(c, finish([c EXCEPT !.trunc = TRUE], FALSE), NilErr)]
    /\ UNCHANGED <<hvars, now, fnvars>>

\* variant of ValuesErr: the rows read so far are returned with the error
ValuesErrPartial(p) ==
    LET c == call[p] IN
    /\ c.pc = "Next"
    /\ c.pos < c.rows.n
    /\ ~(c.limit > 0 /\ c.count >= c.limit)
    /\ free' = release(c)
    /\ call' = [call EXCEPT ![p] = returned(c, finish(c, FALSE), ErrValues)]
    /\ UNCHANGED <<hvars, now, fnvars>>

\* rows.Values() fails; lines 103-106
ValuesErr(p) ==
    LET c == call[p] IN
    /\ c.pc = "Next"
    /\ c.pos < c.rows.n
    /\ ~limitReached(c)
    /\ free' = release(c)
    /\ call' = [call EXCEPT ![p] = returned(c, queryOutput, ErrValues)]
    /\ UNCHANGED <<hvars, now, fnvars>>

\* rows.Next() is false after the last row; lines 118-137
NextEnd(p) ==
    LET c == call[p] IN
    /\ c.pc = "Next"
    /\ c.pos = c.rows.n
    /\ free' = release(c)
    /\ call' = [call EXCEPT ![p] = returned(c, finish(c, TRUE), NilErr)]
    /\ UNCHANGED <<hvars, now, fnvars>>

\* rows.Next() is false because reading failed; lines 118-120
NextErr(p) ==
    LET c == call[p] IN
    /\ c.pc = "Next"
    /\ free' = release(c)
    /\ call' = [call EXCEPT ![p] = returned(c, queryOutput, ErrRows)]
    /\ UNCHANGED <<hvars, now, fnvars>>

\* rows.Next() is false because the context ended while it waited for the
\* next message; lines 118-120
NextCtxErr(p) ==
    LET c == call[p] IN
    /\ c.pc = "Next"
    /\ CtxDone(c)
    /\ free' = release(c)
    /\ call' = [call EXCEPT ![p] = returned(c, queryOutput, CtxErr(c))]
    /\ UNCHANGED <<hvars, now, fnvars>>

\* the result has been delivered; the task takes its next request
Respond(p) ==
    /\ call[p].pc = "returned"
    /\ call' = [call EXCEPT ![p] = Idle]
    /\ UNCHANGED <<hvars, now, free, fnvars>>

\* the caller cancels the context of a call in progress
Cancel(p) ==
    /\ call[p].pc \in InFlight
    /\ ~call[p].cancelled
    /\ call' = [call EXCEPT ![p].cancelled = TRUE]
    /\ UNCHANGED <<hvars, now, free, fnvars>>

Tick ==
    /\ now < MaxTime
    /\ now' = now + 1
    /\ UNCHANGED <<hvars, free, call, fnvars>>

\* ------------------------------------------------ specifications
Handlers(options) ==
    {[o |-> o, b |-> "NewServer", hd |-> NewServer(o)] : o \in options}
    \cup {[o |-> o, b |-> "literal", hd |-> queryHandler(o)] :
            o \in {x \in options : x.MaxRows = 0}}

InitWith(options) ==
    /\ \E x \in Handlers(options) : opts = x.o /\ built = x.b /\ h = x.hd
    /\ now = 0
    /\ free = PoolSize
    /\ call = [p \in Calls |-> Idle]

\* the steps of task p after the entry into call
Steps(p, fieldSets, rowCounts, affecteds) ==
    \/ Acquire(p)
    \/ AcquireErr(p)
    \/ ExecErr(p)
    \/ \E f \in fieldSets, n \in rowCounts, a \in affecteds : ExecOk(p, f, n, a)
    \/ NextRow(p)
    \/ NextTruncate(p)
    \/ ValuesErr(p)
    \/ NextEnd(p)
    \/ NextErr(p)
    \/ Respond(p)

\* the caller's cancellation, and the steps that report that the context
\* has ended
CtxSteps(p) ==
    \/ Cancel(p)
    \/ QueryCtxErr(p)
    \/ NextCtxErr(p)

\* Spec: one task, every configuration without a request timeout, every
\* request, callers that set no deadline and do not cancel
NoText ==
    /\ text = <<>>
    /\ single = <<>>
    /\ keyword = <<>>
    /\ arg = [type |-> "nil", val |-> 0]
    /\ param = <<>>

Init ==
    /\ InitWith({o \in ServerOptions : o.RequestTimeout = 0})
    /\ NoText

Next ==
    \/ \E s \in SqlTexts, a \in ArgLists, m \in -1..MaxOptRows :
            Call("c1", s, a, m, NoDeadline)
    \/ Steps("c1", FieldChoices, 0..MaxResultRows, 0..MaxAffected)

Spec == Init /\ [][Next]_vars


\* PoolSpec: two tasks share the pool; the clock runs, callers have
\* deadlines, and the handler has a request timeout or none
Deadlines == {NoDeadline, DeadlineAt(MaxTime)}

PoolTexts ==
    { <<"S","E","L","E","C","T", " ", "1", ";">>,
      <<"D","E","L","E","T","E", " ", "t">> }

InitPool ==
    /\ InitWith({o \in ServerOptions :
                    o.ReadOnly /\ o.MaxRows = 1 /\ o.RequestTimeout <= 1})
    /\ NoText

NextPool ==
    \/ \E p \in Calls, s \in PoolTexts, a \in ArgLists, d \in Deadlines :
            Call(p, s, a, 0, d)
    \/ \E p \in Calls : Steps(p, {<<"a">>}, {0, 2}, {0})
    \/ \E p \in Calls : CtxSteps(p)
    \/ Tick

PoolSpec == InitPool /\ [][NextPool]_vars

\* a context that has ended wakes a task blocked in pool.Query or in
\* rows.Next()
FairPoolSpec ==
    /\ PoolSpec
    /\ \A p \in Calls : WF_vars(QueryCtxErr(p)) /\ WF_vars(NextCtxErr(p))

\* ClassifierSpec: the classifier functions applied to every text of at most
\* MaxLen characters
Alphabet == {" ", "\n", ";", "a", "-", "/", "*"}

Texts == UNION {[1..n -> Alphabet] : n \in 0..MaxLen}

InitClassifier ==
    /\ InitWith({o \in ServerOptions : o.ReadOnly /\ o.MaxRows = 0 /\ o.RequestTimeout = 0})
    /\ built = "NewServer"
    /\ text \in Texts
    /\ single = <<>>
    /\ keyword = <<>>
    /\ arg = [type |-> "nil", val |-> 0]
    /\ param = <<>>

ApplySingle ==
    /\ single = <<>>
    /\ single' = <<isSingleStatement(text)>>
    /\ UNCHANGED <<hvars, now, free, call, text, keyword, arg, param>>

ApplyKeyword ==
    /\ keyword = <<>>
    /\ keyword' = <<firstKeyword(text)>>
    /\ UNCHANGED <<hvars, now, free, call, text, single, arg, param>>

NextClassifier == ApplySingle \/ ApplyKeyword

ClassifierSpec == InitClassifier /\ [][NextClassifier]_vars

\* NormalizerSpec: normalizeArgument applied to every argument of Arguments
InitNormalizer ==
    /\ InitWith({o \in ServerOptions : o.ReadOnly /\ o.MaxRows = 0 /\ o.RequestTimeout = 0})
    /\ built = "NewServer"
    /\ text = <<>>
    /\ single = <<>>
    /\ keyword = <<>>
    /\ arg \in Arguments
    /\ param = <<>>

ApplyNormalizeArgument ==
    /\ param = <<>>
    /\ \E r \in normalizeArgument(arg) : param' = <<r>>
    /\ UNCHANGED <<hvars, now, free, call, text, single, keyword, arg>>

NextNormalizer == ApplyNormalizeArgument

NormalizerSpec == InitNormalizer /\ [][NextNormalizer]_vars


\* ================================================================ claims
\* the four rules as the claims word them
RuleEmpty(input) == \A i \in DOMAIN input.SQL : IsSpace(input.SQL[i])

RuleMulti(input) == ~isSingleStatement(input.SQL)

ReadKeywords ==
    { <<"S","E","L","E","C","T">>, <<"W","I","T","H">>, <<"S","H","O","W">>,
      <<"E","X","P","L","A","I","N">>, <<"V","A","L","U","E","S">>,
      <<"T","A","B","L","E">> }

RuleMutating(input) == h.readOnly /\ firstKeyword(input.SQL) \notin ReadKeywords

RuleLimit(input) == input.MaxRows < 0

Rules(input) ==
    <<RuleEmpty(input), RuleMulti(input), RuleMutating(input), RuleLimit(input)>>

RuleErrors == <<ErrEmpty, ErrMulti, ErrMutating, ErrMaxRows>>

\* C1: a call that violates one of the four rules returns a validation error
\* having never invoked pool.Query nor held a connection; a call that has
\* invoked pool.Query or holds (or held) a connection violates none of them.
C1_NoQueryBeforeChecks ==
    \A p \in Calls :
        LET c == call[p]
            violated == \E k \in 1..4 : Rules(c.input)[k]
        IN c.pc # "idle" =>
            /\ violated =>
                  /\ c.pc = "returned" /\ c.err \in ValidationErrors
                  /\ c.queryCalls = 0 /\ ~c.acquired /\ ~c.conn
            /\ (c.queryCalls > 0 \/ c.acquired \/ c.conn) => ~violated
            /\ c.err \in ValidationErrors => c.queryCalls = 0 /\ ~c.acquired

\* C1 witness: a negative maxRows on an otherwise valid statement was
\* rejected without a pool query
C1_Witness ==
    \E p \in Calls :
        /\ call[p].pc = "returned"
        /\ call[p].err = ErrMaxRows
        /\ ~RuleEmpty(call[p].input) /\ ~RuleMulti(call[p].input)
        /\ call[p].queryCalls = 0

C3_FirstFailureWins ==
    \A p \in Calls :
        LET c == call[p]
            hits == {k \in 1..4 : Rules(c.input)[k]}
        IN c.pc # "idle" =>
            IF hits = {} THEN c.err \notin ValidationErrors
            ELSE LET first == CHOOSE k \in hits : \A j \in hits : k <= j
                 IN c.pc = "returned" /\ c.err = RuleErrors[first]

\* C3 witness: two statements, mutating, read-only mode and a negative
\* maxRows at once: the multi-statement error is the one returned
C3_Witness ==
    \E p \in Calls :
        LET c == call[p] IN
        /\ c.pc = "returned"
        /\ ~RuleEmpty(c.input) /\ RuleMulti(c.input)
        /\ RuleMutating(c.input) /\ RuleLimit(c.input)
        /\ c.err = ErrMulti


\* C4: isSingleStatement is true exactly for a text with some non-space
\* character and either no semicolon, or exactly one semicolon that has
\* only white space after it and some non-space character before it.
C4_SingleStatement ==
    single # <<>> =>
        LET semis == {i \in DOMAIN text : text[i] = ";"}
            content == {i \in DOMAIN text : ~IsSpace(text[i])}
        IN single[1] =
            /\ content # {}
            /\ \/ semis = {}
               \/ /\ Cardinality(semis) = 1
                  /\ \A i \in semis :
                        /\ \A j \in content : j <= i
                        /\ \E j \in content : j < i

\* C4 witness: a text with a terminating semicolon was accepted
C4_Witness ==
    /\ single = <<TRUE>>
    /\ \E i \in DOMAIN text : text[i] = ";"

\* C5: for a handler default d >= 0 and an override m >= 0 the limit of a
\* call is m when m > 0 and (d = 0 or m < d), and d otherwise; it never
\* exceeds a positive default, and it is 0 only when d = 0 and m = 0.
\* NewServer replaces MaxRows <= 0 by 200, and the limit of a call on its
\* handler lies between 1 and the handler's default.
C5_EffectiveLimit ==
    /\ built = "NewServer" =>
          h.maxRows = (IF opts.MaxRows <= 0 THEN 200 ELSE opts.MaxRows)
    /\ \A p \in Calls :
        LET c == call[p]
            d == h.maxRows
            m == c.input.MaxRows
        IN (c.pc \in InFlight /\ d >= 0 /\ m >= 0) =>
            /\ (m > 0 /\ (d = 0 \/ m < d)) => c.limit = m
            /\ ~(m > 0 /\ (d = 0 \/ m < d)) => c.limit = d
            /\ d > 0 => c.limit <= d
            /\ (d > 0 /\ m > 0) => c.limit = (IF m < d THEN m ELSE d)
            /\ c.limit = 0 => (d = 0 /\ m = 0)
            /\ built = "NewServer" => (1 <= c.limit /\ c.limit <= d)

\* C5 witness: an override above the default left the limit at the default
C5_Witness ==
    \E p \in Calls :
        /\ call[p].pc \in InFlight
        /\ h.maxRows > 0
        /\ call[p].input.MaxRows > h.maxRows
        /\ call[p].limit = h.maxRows

\* the record the call builds of underlying row k of result set rs
RowRecord(rs, k) == record(rs.fields, Values(k, rs.fields))

Min(a, b) == IF a < b THEN a ELSE b

\* C6: a successful call with limit L > 0 over N underlying rows returns
\* the first min(N, L) rows in order and truncated = (N > L); with L = 0 it
\* returns all N rows and truncated = FALSE.
C6_Truncation ==
    \A p \in Calls :
        LET c == call[p]
            N == c.rows.n
            L == c.limit
            want == IF L > 0 THEN Min(N, L) ELSE N
        IN (c.pc = "returned" /\ c.err = NilErr) =>
            /\ Len(c.out.Rows) = want
            /\ \A k \in 1..want : c.out.Rows[k] = RowRecord(c.rows, k)
            /\ c.out.Truncated = (L > 0 /\ N > L)

\* C6 witness: N = L + 1 rows gave L rows and truncated = TRUE
C6_Witness ==
    \E p \in Calls :
        LET c == call[p] IN
        /\ c.pc = "returned" /\ c.err = NilErr
        /\ c.limit > 0 /\ c.rows.n = c.limit + 1
        /\ Len(c.out.Rows) = c.limit
        /\ c.out.Truncated

\* C7: in a successful result rowCount is the number of rows in rows,
\* except that a result with no rows and no columns reports the affected-row
\* count of the command tag.
C7_RowCount ==
    \A p \in Calls :
        LET c == call[p] IN
        (c.pc = "returned" /\ c.err = NilErr) =>
            IF Len(c.out.Rows) = 0 /\ Len(c.out.Columns) = 0
            THEN c.out.RowCount = c.rows.tag[2]
            ELSE c.out.RowCount = Len(c.out.Rows)

\* C7 witness: a statement with a column, no rows and a non-zero affected
\* count reported rowCount 0
C7_Witness ==
    \E p \in Calls :
        LET c == call[p] IN
        /\ c.pc = "returned" /\ c.err = NilErr
        /\ Len(c.out.Columns) > 0 /\ Len(c.out.Rows) = 0
        /\ c.rows.tag[2] > 0
        /\ c.out.RowCount = 0

\* C8: a call that returns an error returns the zero output with it, also
\* when rows had been read; a call without error returns a populated
\* output, and when its result set is longer than its limit that output is
\* truncated.
C8_ErrorOrResult ==
    \A p \in Calls :
        LET c == call[p] IN
        c.pc = "returned" =>
            /\ c.err # NilErr => c.out = queryOutput
            /\ c.err = NilErr =>
                  /\ c.out # queryOutput
                  /\ c.out.Elapsed # <<>>
                  /\ (c.limit > 0 /\ c.rows.n > c.limit) => c.out.Truncated
            /\ c.out.Truncated => c.err = NilErr

\* C8 witness: reading a row's values failed after a row had been read
C8_Witness ==
    \E p \in Calls :
        LET c == call[p] IN
        /\ c.pc = "returned"
        /\ c.err = ErrValues
        /\ c.count > 0
        /\ c.out = queryOutput


Holders == {p \in Calls : call[p].conn}

\* C9: a call holds a connection only between pool.Query's acquisition and
\* its own return; every connection is either idle in the pool or held by
\* a call in progress, and with no call in progress the pool is full.
C9_ConnectionReleased ==
    /\ \A p \in Calls : call[p].conn => call[p].pc \in {"Exec", "Next"}
    /\ free + Cardinality(Holders) = PoolSize
    /\ (\A p \in Calls : call[p].pc \notin InFlight) => free = PoolSize

\* C9 witness: a call that had acquired a connection was cut off by the row
\* limit and has returned, and the pool is full again
C9_Witness ==
    \E p \in Calls :
        LET c == call[p] IN
        /\ c.pc = "returned"
        /\ c.acquired
        /\ c.out.Truncated
        /\ free = PoolSize

\* C10 as first stated (refuted): a call whose context had ended while it
\* was executing the statement or iterating rows returns a failure.
C10_FailsOnceContextEnded ==
    \A p \in Calls :
        (call[p].pc = "returned" /\ call[p].ctxSeen) => call[p].err # NilErr

\* the deadline of the call's context against the caller's
DeadlineNoLooser ==
    \A p \in Calls :
        LET c == call[p] IN
        c.pc \in InFlight =>
            /\ c.parent.has => (c.ctx.has /\ c.ctx.at <= c.parent.at)
            /\ h.requestTimeout <= 0 => c.ctx = c.parent
            /\ h.requestTimeout > 0 =>
                  (c.ctx.has /\ c.ctx.at <= c.start + h.requestTimeout)

\* an error of the context is returned only by a call whose context had
\* ended, with the zero output
ContextErrorsAreReal ==
    \A p \in Calls :
        LET c == call[p] IN
        (c.pc = "returned" /\ c.err \in {ErrCanceled, ErrDeadline}) =>
            (c.ctxSeen /\ c.out = queryOutput)

\* C10 as amended: once the context of a call in progress has ended, the
\* call returns (it is no longer in progress) and holds no connection; the
\* deadline of the call is never later than the caller's, and a request
\* timeout <= 0 leaves the caller's deadline as it is.
C10_ReturnsOnceContextEnded ==
    /\ [](DeadlineNoLooser /\ ContextErrorsAreReal)
    /\ \A p \in Calls :
          (call[p].pc \in InFlight /\ CtxDone(call[p]))
              ~> (call[p].pc \notin InFlight /\ ~call[p].conn)

\* C10 witness: a call holding a connection was cancelled, has returned the
\* context's error, and the pool is full again
C10_Witness ==
    \E p \in Calls :
        LET c == call[p] IN
        /\ c.pc = "returned"
        /\ c.acquired
        /\ c.ctxSeen
        /\ c.err = ErrCanceled
        /\ free = PoolSize


\* the argument r is argument a as C11 has it normalized
RECURSIVE NormalizedAs(_, _)
NormalizedAs(a, r) ==
    CASE a.type = "float64" ->
            IF a.m = 0 \/ a.e >= 0
            THEN /\ r.type = "int64"
                 /\ r.sign = a.sign /\ r.m = a.m /\ r.e = a.e /\ r.less = 0
            ELSE r = a
      [] a.type = "map[string]any" ->
            /\ r.type = "map[string]any"
            /\ DOMAIN r.entries = DOMAIN a.entries
            /\ \A k \in DOMAIN a.entries : NormalizedAs(a.entries[k], r.entries[k])
      [] a.type = "[]any" ->
            /\ r.type = "[]any"
            /\ Len(r.elems) = Len(a.elems)
            /\ \A i \in DOMAIN a.elems : NormalizedAs(a.elems[i], r.elems[i])
      [] OTHER -> r = a

\* C11 (refuted by the code): normalizeArgument turns every float64 without
\* a fractional part into the int64 of the same numeric value, whatever its
\* magnitude, keeps a float64 with a fractional part, normalizes maps and
\* sequences element by element with the same keys, length and order, and
\* returns every other value unchanged.
C11_NormalizeArgument ==
    param # <<>> => NormalizedAs(arg, param[1])


\* the 1-based positions p >= from at which sub occurs in s
Occurrences(s, sub, from) ==
    {q \in from..(Len(s) - Len(sub) + 1) : SubSeq(s, q, q + Len(sub) - 1) = sub}

Least(S) == CHOOSE x \in S : \A y \in S : x <= y

\* the keyword C12 describes, read from position q of s: white space and
\* whole leading comments are passed over, a block comment ending at the
\* first */ that lies after its two-character opener
RECURSIVE KeywordFrom(_, _)
KeywordFrom(s, q) ==
    IF q > Len(s) THEN <<>>
    ELSE IF IsSpace(s[q]) THEN KeywordFrom(s, q + 1)
    ELSE IF q < Len(s) /\ s[q] = "-" /\ s[q + 1] = "-" THEN
        LET ends == Occurrences(s, <<"\n">>, q + 2)
        IN IF ends = {} THEN <<>> ELSE KeywordFrom(s, Least(ends) + 1)
    ELSE IF q < Len(s) /\ s[q] = "/" /\ s[q + 1] = "*" THEN
        LET ends == Occurrences(s, <<"*", "/">>, q + 2)
        IN IF ends = {} THEN <<>> ELSE KeywordFrom(s, Least(ends) + 2)
    ELSE LET stop == {r \in q..Len(s) : ~(IsLetter(s[r]) \/ s[r] = "_")}
             last == IF stop = {} THEN Len(s) ELSE Least(stop) - 1
         IN [i \in 1..(last - q + 1) |-> ToUpper(s[q + i - 1])]

\* C12 (refuted by the code): firstKeyword returns the token that follows
\* the leading white space and comments, uppercased, a block comment being
\* closed by a */ that lies entirely after its opener /*; it returns the
\* empty string when no token follows or a leading comment is unterminated.
C12_FirstKeyword ==
    keyword # <<>> => keyword[1] = KeywordFrom(text, 1)


\* C13 (refuted by the code): in a successful result every record of rows
\* has one entry per element of columns, and under columns[i] it holds the
\* normalized i-th cell of its row, also when two columns have one name.
C13_RecordPerColumn ==
    \A p \in Calls :
        LET c == call[p] IN
        (c.pc = "returned" /\ c.err = NilErr) =>
            \A k \in DOMAIN c.out.Rows :
                /\ Cardinality(DOMAIN c.out.Rows[k]) = Len(c.out.Columns)
                /\ \A i \in DOMAIN c.out.Columns :
                      c.out.Rows[k][c.out.Columns[i]] = normalizeValue(Cell(k, i))

====
